---- MODULE Spec2Model ----
(***************************************************************************)
(* A model of hopsworks-apigen: the alias synthesis of setuptools.py       *)
(* (discovery, collect_managed, generate_aliases on a file system), the    *)
(* navigation merge and publication index of mkdocs.py, the deprecation    *)
(* wrapper of deprecation.py and the message formatter of errors.py.       *)
(*                                                                         *)
(* Paths are sequences of path parts relative to the working directory     *)
(* (the source root of build_aliases.run is Path()).  A file's content is  *)
(* a sequence of lines, a line a sequence of string tokens.  Module paths  *)
(* are sequences of their dotted parts.                                    *)
(***************************************************************************)
EXTENDS Integers, Sequences, FiniteSets, TLC

VARIABLES
    dirs,              \* the directories that exist
    files,             \* file path -> content
    aliases,           \* the alias declarations of the source tree (a list)
    destination_root,  \* build_aliases.aliases_dir
    runs,              \* generate_aliases runs done so far
    last_result,       \* outcome of the last generate_aliases run
    prev_dirs,         \* dirs before the last run
    prev_files,        \* files before the last run
    created,           \* directories the last run created
    written,           \* file paths the last run wrote
    synthesized,       \* directories created by any run so far
    \* mkdocs.py: the navigation merge
    cfg_nav,           \* config.nav, a list of entries
    nav_section_title, \* config.nav_section_title
    nav_before,        \* cfg_nav before the last merge
    nav_list,          \* the nav_list of the last merge
    merges,            \* merges done so far
    \* mkdocs.py: the publication index
    config_modules,    \* config.modules, a list of module paths
    extra,             \* member -> its hopsworks_apigen metadata
    objects_by_module, \* primary module -> list of (object_path, order)
    index_built,       \* _collect_public_objects has run
    \* errors.py: generate_deprecation_message
    msg_name,          \* name
    msg_by,            \* deprecated_by, a list of recommendations
    msg_until,         \* available_until, optional
    msg_result,        \* the text returned, or the error raised
    msg_done,          \* the function has been applied
    \* deprecation.py: deprecated
    dep_by,            \* deprecated_by of the decorator
    dep_until,         \* available_until of the decorator
    dep_public_name,   \* public_name of the decorator, optional
    dep_symbol,        \* the symbol decorated
    nameOf,            \* PublicNames.nameOf.get(symbol), optional
    decorated,         \* what deprecate(symbol) gave
    calls,             \* calls of a wrapper so far
    external_calls,    \* those made from outside the internal packages
    warnings_total,    \* warnings emitted so far
    invocations_total, \* invocations of a wrapped function so far
    last_call,         \* the last call of a wrapper and what it did
    \* mkdocs.py: the navigation tree
    nav_tree,          \* self.nav: node (path from the root) -> doc_path
    root_modules,      \* self.root_modules
    doc_modules,       \* the keys of self.objects_by_module
    added,             \* the modules on_files has added to the tree so far
    nav_prev,          \* nav_tree before the last add_module
    tree_list,         \* self.nav.as_list() at the end of on_files
    listed,            \* as_list has been taken
    \* aliases.py: public
    public_names,      \* PublicNames.nameOf, a dict as a set of (symbol, name)
    applications,      \* uses of public so far
    last_public        \* the last use of public and what it did

nav_vars == <<cfg_nav, nav_section_title, nav_before, nav_list, merges>>

docs_vars == <<config_modules, extra, objects_by_module, index_built>>

msg_vars == <<msg_name, msg_by, msg_until, msg_result, msg_done>>

dep_vars == <<dep_by, dep_until, dep_public_name, dep_symbol, nameOf, decorated,
              calls, external_calls, warnings_total, invocations_total, last_call>>

tree_vars == <<nav_tree, root_modules, doc_modules, added, nav_prev, tree_list, listed>>

pub_vars == <<public_names, applications, last_public>>

alias_vars == <<dirs, files, aliases, destination_root, runs, last_result,
                prev_dirs, prev_files, created, written, synthesized>>

----------------------------------------------------------------------------
(* Bounds *)

\* The number of alias declarations in the source tree.
MaxAliases == 3

\* The number of documented modules.
MaxModules == 3

\* The number of parts of a documented module path.
MaxDepth == 2

\* The number of path arguments given to public.
MaxPaths == 2

\* The number of uses of public.
MaxApplications == 2

\* The number of consecutive generate_aliases runs.
MaxRuns == 2

\* The length of the configured navigation, and the merges into it.
MaxNav == 3
MaxMerges == 2

\* The number of configured root modules.
MaxRoots == 2

\* The number of recommendations of a deprecation message.
MaxRecs == 3

\* The number of calls of a deprecated function.
MaxCalls == 3

----------------------------------------------------------------------------
(* Strings: Python compares str values by code point.  Rank orders the    *)
(* atoms of the model as Python orders them.                               *)

Rank(s) ==
    CASE s = "."       -> 0
      [] s = "a"       -> 1
      [] s = "aliases" -> 2
      [] s = "b"       -> 3
      [] s = "build"   -> 4
      [] s = "f"       -> 5
      [] s = "g"       -> 6
      [] s = "index"   -> 7
      [] s = "m"       -> 8
      [] s = "n"       -> 9

\* Lexicographic order of two sequences of atoms (tuple comparison in
\* Python; also the order of "/a/b"-style strings, "/" sorting below every
\* character of a module name).
RECURSIVE SeqLess(_, _)
SeqLess(s, t) ==
    IF s = <<>> THEN t # <<>>
    ELSE IF t = <<>> THEN FALSE
    ELSE IF Head(s) = Head(t) THEN SeqLess(Tail(s), Tail(t))
    ELSE Rank(Head(s)) < Rank(Head(t))

Front(s) == SubSeq(s, 1, Len(s) - 1)
Last(s) == s[Len(s)]

IsPrefix(p, s) == Len(p) <= Len(s) /\ SubSeq(s, 1, Len(p)) = p

----------------------------------------------------------------------------
(* File contents *)

\* HopsworksApigenGriffe.MAGIC_COMMENT: the fixed leading comment line of
\* every generated file.
MAGIC_COMMENT == <<"# magic">>

\* str.startswith(MAGIC_COMMENT) on a file's text.
StartsWithMagic(content) == Len(content) > 0 /\ content[1] = MAGIC_COMMENT

\* A hand-written Python file, and a hand-written .gitignore.
UserContent == << <<"user code">> >>
UserIgnore == << <<"*.pyc">> >>

GITIGNORE_HEADER == <<"# Ignore generated alias files">>

----------------------------------------------------------------------------
(* _discover_python_modules *)

PyStem(name) ==
    CASE name = "__init__.py" -> "__init__"
      [] name = "a.py" -> "a"
      [] name = "b.py" -> "b"
      [] name = "m.py" -> "m"
      [] name = "n.py" -> "n"

\* Path.rglob("*.py") matches on the file name.
IsPyName(name) == name \in {"__init__.py", "a.py", "b.py", "m.py", "n.py"}

\* part.startswith(".")
StartsWithDot(part) == part \in {".gitignore", "."}

SkippedPart(part) ==
    StartsWithDot(part) \/ part \in {"__pycache__", "build", "dist", "venv"}

Skipped(p) == \E i \in 1..Len(p) : SkippedPart(p[i])

\* A generated package file met by the scan: it is unlinked.
Stale(fs, p) == Last(p) = "__init__.py" /\ StartsWithMagic(fs[p])

Scanned(fs) == {p \in DOMAIN fs : IsPyName(Last(p)) /\ ~Skipped(p)}

\* The python_files returned.
python_files(fs) == {p \in Scanned(fs) : ~Stale(fs, p)}

\* The files left on disk by the scan.
AfterDiscovery(fs) ==
    [p \in (DOMAIN fs) \ {q \in Scanned(fs) : Stale(fs, q)} |-> fs[p]]

----------------------------------------------------------------------------
(* collect_managed *)

SourceModules(pyfiles) ==
    {Front(p) \o <<PyStem(Last(p))>> : p \in {q \in pyfiles : Last(q) # "__init__.py"}}

SourcePackages(pyfiles) ==
    {Front(p) : p \in {q \in pyfiles : Last(q) = "__init__.py"}}

NoError ==
    [kind |-> "ok", target_module |-> <<>>, parent_module |-> <<>>,
     alias_name |-> "", original_ref |-> <<>>, declared |-> <<>>]

PackageExists(t) == [NoError EXCEPT !.kind = "package_exists", !.target_module = t]

ModuleExists(t, parent) ==
    [NoError EXCEPT !.kind = "module_exists", !.target_module = t,
                    !.parent_module = parent]

Duplicate(t, alias, declared) ==
    [NoError EXCEPT !.kind = "duplicate", !.target_module = t,
                    !.alias_name = alias.alias_name,
                    !.original_ref = <<alias.from_module, alias.object_name>>,
                    !.declared = declared]

\* aliases_by_module's keys in insertion order: the targets in order of first
\* appearance in the discovered list.
RECURSIVE TargetOrder(_, _)
TargetOrder(list, seen) ==
    IF list = <<>> THEN <<>>
    ELSE IF Head(list).target_module \in seen THEN TargetOrder(Tail(list), seen)
    ELSE <<Head(list).target_module>>
         \o TargetOrder(Tail(list), seen \cup {Head(list).target_module})

\* aliases_by_module[target]: the declarations of one target, in list order.
RECURSIVE AliasesOf(_, _)
AliasesOf(list, t) ==
    IF list = <<>> THEN <<>>
    ELSE IF Head(list).target_module = t THEN <<Head(list)>> \o AliasesOf(Tail(list), t)
    ELSE AliasesOf(Tail(list), t)

\* key=lambda x: (x["from_module"], x["object_name"], x["alias_name"])
AliasKey(x) == <<x.from_module, x.object_name, x.alias_name>>

\* list.sort is stable: an element goes after the elements whose key is not
\* greater.
RECURSIVE InsertAlias(_, _)
InsertAlias(x, sorted) ==
    IF sorted = <<>> THEN <<x>>
    ELSE IF SeqLess(AliasKey(x), AliasKey(Head(sorted))) THEN <<x>> \o sorted
    ELSE <<Head(sorted)>> \o InsertAlias(x, Tail(sorted))

RECURSIVE SortAliases(_)
SortAliases(list) ==
    IF list = <<>> THEN <<>>
    ELSE InsertAlias(Last(list), SortAliases(Front(list)))

\* A variant that tests the target's own path only, no ancestor.
FirstModuleParentExact(parts, n, smods) ==
    IF parts \in smods THEN Len(parts) ELSE 0

\* The first parent_number in 1..len(parts) whose prefix is a source module,
\* 0 when there is none.
RECURSIVE FirstModuleParent(_, _, _)
FirstModuleParent(parts, n, smods) ==
    IF n > Len(parts) THEN 0
    ELSE IF SubSeq(parts, 1, n) \in smods THEN n
    ELSE FirstModuleParent(parts, n + 1, smods)

\* The loop over one target's sorted alias list: the content built so far,
\* the modules imported and the names declared.  Gives the content, or the
\* duplicate error.
RECURSIVE EmitAliases(_, _, _, _, _)
EmitAliases(t, list, content, imported, declared) ==
    IF list = <<>> THEN [error |-> NoError, content |-> content]
    ELSE
      LET alias == Head(list)
          ref == <<alias.from_module, alias.object_name>>
      IN  IF alias.alias_name \in DOMAIN declared
          THEN [error |-> Duplicate(t, alias, declared[alias.alias_name]),
                content |-> content]
          ELSE EmitAliases(
                 t, Tail(list),
                 content
                   \o (IF alias.from_module \in imported THEN <<>>
                       ELSE << <<"import", alias.from_module>> >>)
                   \o << <<alias.alias_name, "=", alias.from_module, alias.object_name>> >>,
                 imported \cup {alias.from_module},
                 [n \in DOMAIN declared \cup {alias.alias_name} |->
                    IF n = alias.alias_name THEN ref ELSE declared[n]])

EmptyMap == [n \in {} |-> <<>>]

\* The loop over aliases_by_module.items(): managed is the list of
\* (target module, content) pairs built so far.
RECURSIVE CollectTargets(_, _, _, _, _)
CollectTargets(targets, list, smods, spkgs, managed) ==
    IF targets = <<>> THEN [error |-> NoError, managed |-> managed]
    ELSE
      LET t == Head(targets)
          n == FirstModuleParent(t, 1, smods)
          emitted == EmitAliases(t, SortAliases(AliasesOf(list, t)),
                                 <<MAGIC_COMMENT>>, {}, EmptyMap)
      IN  IF t \in spkgs
          THEN [error |-> PackageExists(t), managed |-> managed]
          ELSE IF n > 0
          THEN [error |-> ModuleExists(t, SubSeq(t, 1, n)), managed |-> managed]
          ELSE IF emitted.error.kind # "ok"
          THEN [error |-> emitted.error, managed |-> managed]
          ELSE CollectTargets(Tail(targets), list, smods, spkgs,
                              Append(managed, [target_module |-> t,
                                               content |-> emitted.content]))

\* collect_managed on the discovered alias list: an error drops what was
\* built (the exception leaves the function).
collect_managed(list, pyfiles) ==
    LET r == CollectTargets(TargetOrder(list, {}), list,
                            SourceModules(pyfiles), SourcePackages(pyfiles), <<>>)
    IN  IF r.error.kind = "ok" THEN r ELSE [r EXCEPT !.managed = <<>>]

----------------------------------------------------------------------------
(* generate_aliases *)

\* Path.exists()
Exists(fs, p) == p \in fs.dirs \/ p \in DOMAIN fs.files

\* write_text: the file is created or replaced.
WriteText(fsfiles, p, content) ==
    [q \in DOMAIN fsfiles \cup {p} |-> IF q = p THEN content ELSE fsfiles[q]]

\* The while loop: parent and its ancestors up to the first that exists,
\* deepest first.
RECURSIVE ToBeCreated(_, _)
ToBeCreated(fs, parent) ==
    IF Exists(fs, parent) \/ parent = <<>> THEN <<>>
    ELSE <<parent>> \o ToBeCreated(fs, Front(parent))

Reverse(s) == [i \in 1..Len(s) |-> s[Len(s) + 1 - i]]

\* str(d.relative_to(destination_root)): the path below the root, "." for
\* the root itself.
RelStr(root, d) ==
    IF d = root THEN <<".">> ELSE SubSeq(d, Len(root) + 1, Len(d))

\* The for loop over reversed(to_be_created).  st holds the file system, the
\* gitignore entries and what the run created and wrote.
RECURSIVE MakeDirs(_, _, _)
MakeDirs(st, root, ds) ==
    IF ds = <<>> THEN st
    ELSE
      LET d == Head(ds)
          marker == d \o <<"__init__.py">>
      IN  MakeDirs(
            [fs |-> [dirs |-> st.fs.dirs \cup {d},
                     files |-> WriteText(st.fs.files, marker, <<MAGIC_COMMENT>>)],
             \* relative_to raises ValueError for a directory outside the
             \* root; the error is suppressed and no entry is added
             entries |-> IF IsPrefix(root, d)
                         THEN Append(st.entries, <<"/">> \o RelStr(root, d))
                         ELSE st.entries,
             created |-> st.created \cup {d},
             written |-> st.written \cup {marker}],
            root, Tail(ds))

\* A variant that leaves the destination root out of the file path.
MaterializeOneInPlace(st, root, m) ==
    LET parent == m.target_module
        filepath == parent \o <<"__init__.py">>
        made == MakeDirs(st, root, Reverse(ToBeCreated(st.fs, parent)))
    IN  [made EXCEPT !.fs.files = WriteText(made.fs.files, filepath, m.content),
                     !.written = made.written \cup {filepath}]

\* One turn of the loop over managed.items().
MaterializeOne(st, root, m) ==
    LET parent == root \o m.target_module
        filepath == parent \o <<"__init__.py">>
        made == MakeDirs(st, root, Reverse(ToBeCreated(st.fs, parent)))
    IN  [made EXCEPT !.fs.files = WriteText(made.fs.files, filepath, m.content),
                     !.written = made.written \cup {filepath}]

RECURSIVE Materialize(_, _, _)
Materialize(st, root, managed) ==
    IF managed = <<>> THEN st
    ELSE Materialize(MaterializeOne(st, root, Head(managed)), root, Tail(managed))

\* sorted(gitignore_entries)
RECURSIVE InsertEntry(_, _)
InsertEntry(x, sorted) ==
    IF sorted = <<>> THEN <<x>>
    ELSE IF SeqLess(x, Head(sorted)) THEN <<x>> \o sorted
    ELSE <<Head(sorted)>> \o InsertEntry(x, Tail(sorted))

RECURSIVE SortEntries(_)
SortEntries(list) ==
    IF list = <<>> THEN <<>>
    ELSE InsertEntry(Last(list), SortEntries(Front(list)))

\* A variant that starts the file afresh on every run.
WriteGitignoreFresh(st, root) ==
    IF st.entries = <<>> THEN st
    ELSE
      LET gitignore_path == root \o <<".gitignore">>
      IN  [st EXCEPT !.fs.files = WriteText(st.fs.files, gitignore_path,
                                            <<GITIGNORE_HEADER>> \o SortEntries(st.entries)),
                     !.written = st.written \cup {gitignore_path}]

\* The single .gitignore at the root.
WriteGitignore(st, root) ==
    IF st.entries = <<>> THEN st
    ELSE
      LET gitignore_path == root \o <<".gitignore">>
          gitignore_content ==
            IF Exists(st.fs, gitignore_path) THEN st.fs.files[gitignore_path]
            ELSE <<GITIGNORE_HEADER>>
      IN  [st EXCEPT !.fs.files = WriteText(st.fs.files, gitignore_path,
                                            gitignore_content \o SortEntries(st.entries)),
                     !.written = st.written \cup {gitignore_path}]

\* A variant that materializes each target as soon as it is validated, so
\* that an error in a later target leaves the earlier ones written.
generate_aliases_eager(fs, root, list) ==
    LET scanned == [fs EXCEPT !.files = AfterDiscovery(fs.files)]
        pyfiles == python_files(fs.files)
        collected == CollectTargets(TargetOrder(list, {}), list,
                                    SourceModules(pyfiles), SourcePackages(pyfiles), <<>>)
        start == [fs |-> scanned, entries |-> <<>>, created |-> {}, written |-> {}]
        done == WriteGitignore(Materialize(start, root, collected.managed), root)
    IN  [fs |-> done.fs, result |-> collected.error,
         created |-> done.created, written |-> done.written]

\* generate_aliases(Path(), root) on file system fs, the alias declarations
\* being discovered in the order of list.
generate_aliases(fs, root, list) ==
    LET scanned == [fs EXCEPT !.files = AfterDiscovery(fs.files)]
        pyfiles == python_files(fs.files)
        collected == collect_managed(list, pyfiles)
        start == [fs |-> scanned, entries |-> <<>>, created |-> {}, written |-> {}]
        done == IF collected.error.kind = "ok"
                THEN WriteGitignore(Materialize(start, root, collected.managed), root)
                ELSE start
    IN  [fs |-> done.fs, result |-> collected.error,
         created |-> done.created, written |-> done.written]

----------------------------------------------------------------------------
(* The source trees and destinations of the model *)

\* Alias declarations a source tree may hold: symbols f and g of the source
\* modules m and n, published at the targets a, a.b and b.
Alias(t, m, o, n) ==
    [target_module |-> t, from_module |-> m, object_name |-> o, alias_name |-> n]

AliasCandidates ==
    << Alias(<<"a">>, "m", "f", "f"),      Alias(<<"a">>, "n", "f", "f"),
       Alias(<<"a">>, "m", "g", "g"),      Alias(<<"a">>, "m", "f", "g"),
       Alias(<<"a", "b">>, "m", "f", "f"), Alias(<<"a", "b">>, "n", "f", "f"),
       Alias(<<"a", "b">>, "m", "g", "g"), Alias(<<"a", "b">>, "m", "f", "g"),
       Alias(<<"b">>, "m", "f", "f"),      Alias(<<"b">>, "n", "f", "f"),
       Alias(<<"b">>, "m", "g", "g"),      Alias(<<"b">>, "m", "f", "g") >>

\* The lists of at most MaxAliases declarations, one per multiset (every
\* order of discovery is tried by the run itself).
AliasLists ==
    LET idx == 1..Len(AliasCandidates)
        ixs == UNION {[1..k -> idx] : k \in 0..MaxAliases}
        ordered == {s \in ixs : \A i \in 1..(Len(s) - 1) : s[i] <= s[i + 1]}
    IN  {[i \in 1..Len(s) |-> AliasCandidates[s[i]]] : s \in ordered}

\* The orders in which a run may discover the declarations.
Orderings(list) ==
    {[i \in 1..Len(list) |-> list[p[i]]] : p \in Permutations(1..Len(list))}

EditableRoot == <<>>
BuildRoot == <<"build", "aliases">>

\* The hand-written source files: m.py and n.py declare the symbols; the
\* others may or may not exist.
SourceLayouts ==
    { {},
      { <<"a.py">> },
      { <<"a", "__init__.py">> },
      { <<"a", "b.py">> },
      { <<"a", "__init__.py">>, <<"a", "b.py">> } }

\* What the destination holds before the first run: files (with content)
\* and directories.
DestLayouts(root) ==
    IF root = EditableRoot
    THEN { [dirs |-> {}, files |-> EmptyMap],
           [dirs |-> {}, files |-> [p \in {<<".gitignore">>} |-> UserIgnore]] }
    ELSE { [dirs |-> {}, files |-> EmptyMap],
           [dirs |-> {<<"build">>}, files |-> EmptyMap],
           [dirs |-> {<<"build">>, BuildRoot}, files |-> EmptyMap],
           [dirs |-> {<<"build">>, BuildRoot},
            files |-> [p \in {BuildRoot \o <<".gitignore">>} |-> UserIgnore]],
           [dirs |-> {<<"build">>, BuildRoot, BuildRoot \o <<"a">>},
            files |-> [p \in {BuildRoot \o <<".gitignore">>,
                              BuildRoot \o <<"a", "__init__.py">>} |->
                         IF Last(p) = ".gitignore" THEN UserIgnore ELSE UserContent]] }

DirsOf(paths) == {SubSeq(p, 1, k) : p \in paths, k \in 0..0} \cup
                 UNION {{SubSeq(p, 1, k) : k \in 0..(Len(p) - 1)} : p \in paths}

InitialFs(layout, dest) ==
    LET src == layout \cup { <<"m.py">>, <<"n.py">> }
    IN  [dirs |-> DirsOf(src) \cup dest.dirs \cup {<<>>},
         files |-> [p \in src \cup DOMAIN dest.files |->
                      IF p \in src THEN UserContent ELSE dest.files[p]]]

AliasInit ==
    /\ destination_root \in {EditableRoot, BuildRoot}
    /\ aliases \in AliasLists
    /\ \E layout \in SourceLayouts : \E dest \in DestLayouts(destination_root) :
         /\ dirs = InitialFs(layout, dest).dirs
         /\ files = InitialFs(layout, dest).files
    /\ runs = 0
    /\ last_result = [NoError EXCEPT !.kind = "none"]
    /\ prev_dirs = dirs
    /\ prev_files = files
    /\ created = {}
    /\ written = {}
    /\ synthesized = {}

\* build_aliases.run: generate_aliases(Path(), self.aliases_dir)
GenerateAliases ==
    /\ runs < MaxRuns
    /\ \E list \in Orderings(aliases) :
         LET r == generate_aliases([dirs |-> dirs, files |-> files],
                                   destination_root, list)
         IN  /\ dirs' = r.fs.dirs
             /\ files' = r.fs.files
             /\ last_result' = r.result
             /\ created' = r.created
             /\ written' = r.written
             /\ synthesized' = synthesized \cup r.created
    /\ prev_dirs' = dirs
    /\ prev_files' = files
    /\ runs' = runs + 1
    /\ UNCHANGED <<aliases, destination_root>>


----------------------------------------------------------------------------
(* mkdocs.py: _merge_nav *)

\* A navigation entry: a bare string, or a single-key mapping from a title
\* to its pages.
StrItem(text) == [is_str |-> TRUE, key |-> text, value |-> <<>>]
MapItem(key, value) == [is_str |-> FALSE, key |-> key, value |-> value]

\* A variant that goes on after the first match and replaces every match.
RECURSIVE MergeAll(_, _, _, _, _)
MergeAll(nav, position, section_title, list, replaced) ==
    IF position > Len(nav)
    THEN IF replaced THEN nav ELSE Append(nav, MapItem(section_title, list))
    ELSE IF nav[position].key = section_title
    THEN MergeAll([nav EXCEPT ![position] = MapItem(section_title, list)],
                  position + 1, section_title, list, TRUE)
    ELSE MergeAll(nav, position + 1, section_title, list, replaced)

merge_nav_all(nav, section_title, list) == MergeAll(nav, 1, section_title, list, FALSE)

\* The loop of _merge_nav from position on: the first entry that is the
\* title, or a mapping whose first key is the title, is replaced and the
\* function returns; without one the section is appended.
RECURSIVE MergeFrom(_, _, _, _)
MergeFrom(nav, position, section_title, list) ==
    IF position > Len(nav) THEN Append(nav, MapItem(section_title, list))
    ELSE
      LET item == nav[position]
      IN  IF item.is_str /\ item.key = section_title
          THEN [nav EXCEPT ![position] = MapItem(section_title, list)]
          ELSE IF ~item.is_str /\ item.key = section_title
          THEN [nav EXCEPT ![position] = MapItem(section_title, list)]
          ELSE MergeFrom(nav, position + 1, section_title, list)

merge_nav(nav, section_title, list) == MergeFrom(nav, 1, section_title, list)

NavTitles == {"API Reference", "Home"}

NavItems ==
    {StrItem(t) : t \in NavTitles}
      \cup {MapItem(k, v) : k \in NavTitles \cup {"Guide"},
                            v \in {<<"index.md">>, <<"old.md">>}}

NavLists == {<<>>, <<"reference/a.md">>, <<"reference/a.md", "reference/b.md">>}

NavInit ==
    /\ cfg_nav \in UNION {[1..k -> NavItems] : k \in 0..MaxNav}
    /\ nav_section_title \in NavTitles
    /\ nav_before = cfg_nav
    /\ nav_list = <<>>
    /\ merges = 0

\* _merge_nav(cfg_nav, self.config.nav_section_title, self.nav.as_list())
MergeNav ==
    /\ merges < MaxMerges
    /\ \E list \in NavLists :
         /\ cfg_nav' = merge_nav(cfg_nav, nav_section_title, list)
         /\ nav_list' = list
    /\ nav_before' = cfg_nav
    /\ merges' = merges + 1
    /\ UNCHANGED nav_section_title

----------------------------------------------------------------------------
(* mkdocs.py: _collect_public_objects *)

\* The modules griffe loads: pkg with its submodule pkg.sub, and other.
\* members.values() of each, in order.
Member(kind, mod, name) == [kind |-> kind, module |-> mod, name |-> name]

Members(mod) ==
    CASE mod = <<"pkg">> ->
           << Member("module", <<"pkg">>, "sub"),
              Member("function", <<"pkg">>, "f"),
              Member("alias", <<"pkg">>, "g") >>
      [] mod = <<"pkg", "sub">> ->
           << Member("function", <<"pkg", "sub">>, "g"),
              Member("class", <<"pkg", "sub">>, "K"),
              Member("attribute", <<"pkg", "sub">>, "v") >>
      [] mod = <<"other">> ->
           << Member("function", <<"other">>, "h") >>

LoadableModules == {<<"pkg">>, <<"pkg", "sub">>, <<"other">>}

\* The functions and classes of the loaded modules.
Symbols ==
    {m \in UNION {{Members(mod)[i] : i \in 1..Len(Members(mod))} : mod \in LoadableModules} :
        m.kind \in {"function", "class"}}

\* member.extra.get("hopsworks_apigen"): the metadata a member may carry.
\* aliases holds the target modules, the empty one standing for the
\* declaring module.
NoInfo == [present |-> FALSE, is_public |-> FALSE, aliases |-> <<>>, order |-> 0]
Info(public, targets, order) ==
    [present |-> TRUE, is_public |-> public, aliases |-> targets, order |-> order]

InfoChoices ==
    { NoInfo,
      Info(FALSE, << <<"internal">> >>, 0),
      Info(TRUE, <<>>, 0),
      Info(TRUE, << <<>>, <<"pub">> >>, 1),
      Info(TRUE, << <<"pub">> >>, 0) }

\* _walk_modules: the module, then the walk of each member that is a module.
RECURSIVE WalkMembers(_, _)
WalkMembers(mod, ms) ==
    IF ms = <<>> THEN <<>>
    ELSE (IF Head(ms).kind = "module"
          THEN LET submodule == mod \o <<Head(ms).name>>
               IN  <<submodule>> \o WalkMembers(submodule, Members(submodule))
          ELSE <<>>)
         \o WalkMembers(mod, Tail(ms))

walk_modules(mod) == <<mod>> \o WalkMembers(mod, Members(mod))

\* _primary_module
primary_module(ex, member) ==
    LET info == ex[member]
    IN  IF info.present /\ info.aliases # <<>> /\ info.aliases[1] # <<>>
        THEN info.aliases[1]
        ELSE member.module

\* The loop over submodule.members.values().
RECURSIVE CollectMembers(_, _, _)
CollectMembers(obm, ex, ms) ==
    IF ms = <<>> THEN obm
    ELSE
      LET member == Head(ms)
          info == IF member \in DOMAIN ex THEN ex[member] ELSE NoInfo
          primary_mod == primary_module(ex, member)
          object_path == member.module \o <<member.name>>
          old == IF primary_mod \in DOMAIN obm THEN obm[primary_mod] ELSE <<>>
      IN  IF member.kind \in {"function", "class"} /\ info.present /\ info.is_public
          THEN CollectMembers(
                 [k \in DOMAIN obm \cup {primary_mod} |->
                    IF k = primary_mod THEN Append(old, <<object_path, info.order>>)
                    ELSE obm[k]],
                 ex, Tail(ms))
          ELSE CollectMembers(obm, ex, Tail(ms))

\* The loop over _walk_modules(module).
RECURSIVE CollectSubmodules(_, _, _)
CollectSubmodules(obm, ex, mods) ==
    IF mods = <<>> THEN obm
    ELSE CollectSubmodules(CollectMembers(obm, ex, Members(Head(mods))), ex, Tail(mods))

\* The loop over self.config.modules.
RECURSIVE CollectRoots(_, _, _)
CollectRoots(obm, ex, roots) ==
    IF roots = <<>> THEN obm
    ELSE CollectRoots(
           IF Head(roots) \in LoadableModules
           THEN CollectSubmodules(obm, ex, walk_modules(Head(roots)))
           ELSE obm,
           ex, Tail(roots))

collect_public_objects(obm, ex, roots) == CollectRoots(obm, ex, roots)

\* The state on_config leaves: an empty index.
DocsInit ==
    /\ config_modules \in UNION {[1..k -> LoadableModules] : k \in 0..MaxRoots}
    /\ extra \in [Symbols -> InfoChoices]
    /\ extra[Member("class", <<"pkg", "sub">>, "K")] = Info(TRUE, <<>>, 0)
    /\ objects_by_module = EmptyMap
    /\ index_built = FALSE

\* on_files: self._collect_public_objects()
CollectPublicObjects ==
    /\ ~index_built
    /\ objects_by_module' = collect_public_objects(objects_by_module, extra, config_modules)
    /\ index_built' = TRUE
    /\ UNCHANGED <<config_modules, extra>>


----------------------------------------------------------------------------
(* errors.py: generate_deprecation_message *)

\* An optional string: None, or a str (which may be empty).
None == [given |-> FALSE, value |-> ""]
Some(v) == [given |-> TRUE, value |-> v]

\* The truth value Python gives it: None and "" are false.
Truthy(opt) == opt.given /\ opt.value # ""

\* The characters of the version strings of the model.
VersionChars(v) ==
    CASE v = "4.0"    -> <<"4", ".", "0">>
      [] v = "10.2"   -> <<"1", "0", ".", "2">>
      [] v = "4"      -> <<"4">>
      [] v = "4."     -> <<"4", ".">>
      [] v = ".0"     -> <<".", "0">>
      [] v = "4.0.1"  -> <<"4", ".", "0", ".", "1">>
      [] v = "v4.0"   -> <<"v", "4", ".", "0">>
      [] v = "4.0\n"  -> <<"4", ".", "0", "\n">>
      [] v = ""       -> <<>>

Versions == {"4.0", "10.2", "4", "4.", ".0", "4.0.1", "v4.0", "4.0\n", ""}

Digits == {"0", "1", "2", "3", "4", "5", "6", "7", "8", "9"}

\* \d+ from position i: the position after the digits.
RECURSIVE SkipDigits(_, _)
SkipDigits(chars, i) ==
    IF i <= Len(chars) /\ chars[i] \in Digits THEN SkipDigits(chars, i + 1) ELSE i

\* re.match(r"^\d+\.\d+$", s): $ matches at the end and before a final
\* newline.
MatchesMajorMinor(chars) ==
    LET i == SkipDigits(chars, 1)
        j == SkipDigits(chars, i + 1)
    IN  /\ i > 1
        /\ i <= Len(chars)
        /\ chars[i] = "."
        /\ j > i + 1
        /\ \/ j = Len(chars) + 1
           \/ j = Len(chars) /\ chars[j] = "\n"

\* ", ".join(items): a text is the sequence of its pieces.
RECURSIVE JoinComma(_)
JoinComma(items) ==
    IF items = <<>> THEN <<>>
    ELSE IF Len(items) = 1 THEN items
    ELSE <<Head(items), ", ">> \o JoinComma(Tail(items))

MessageError(kind) == [error |-> kind, text |-> <<>>]

\* A variant that joins three or more recommendations without the comma
\* before "or".
generate_deprecation_message_plain(name, deprecated_by, available_until) ==
    LET v == IF Truthy(available_until) THEN <<"version ", available_until.value>>
             ELSE <<"a future release">>
        recs == IF Len(deprecated_by) = 1 THEN <<deprecated_by[1]>>
                ELSE JoinComma(Front(deprecated_by)) \o <<" or ", Last(deprecated_by)>>
    IN  IF Truthy(available_until)
           /\ ~MatchesMajorMinor(VersionChars(available_until.value))
        THEN MessageError("available_until format")
        ELSE IF Len(deprecated_by) = 0
        THEN MessageError("no recommendation")
        ELSE [error |-> "none",
              text |-> name \o <<" is deprecated.">>
                       \o <<" The function will be removed in ">> \o v \o <<" of hopsworks.">>
                       \o <<" Consider using ">> \o recs \o <<" instead.">>]

\* generate_deprecation_message(name, *deprecated_by, available_until): the
\* text, or the HopsworksApigenError raised.  name is a sequence of pieces.
generate_deprecation_message(name, deprecated_by, available_until) ==
    LET v == IF Truthy(available_until) THEN <<"version ", available_until.value>>
             ELSE <<"a future release">>
        recs == IF Len(deprecated_by) = 1 THEN <<deprecated_by[1]>>
                ELSE IF Len(deprecated_by) = 2
                THEN <<deprecated_by[1], " or ", deprecated_by[2]>>
                ELSE JoinComma(Front(deprecated_by)) \o <<", or ", Last(deprecated_by)>>
    IN  IF Truthy(available_until)
           /\ ~MatchesMajorMinor(VersionChars(available_until.value))
        THEN MessageError("available_until format")
        ELSE IF Len(deprecated_by) = 0
        THEN MessageError("no recommendation")
        ELSE [error |-> "none",
              text |-> name \o <<" is deprecated.">>
                       \o <<" The function will be removed in ">> \o v \o <<" of hopsworks.">>
                       \o <<" Consider using ">> \o recs \o <<" instead.">>]

Recommendations == {"new_f", "other_f"}

MsgInit ==
    /\ msg_name \in {<<"old_f">>, <<"pub.K", ".", "m">>}
    /\ msg_by \in UNION {[1..k -> Recommendations] : k \in 0..MaxRecs}
    /\ msg_until \in {None} \cup {Some(v) : v \in Versions}
    /\ msg_result = MessageError("not called")
    /\ msg_done = FALSE

GenerateMessage ==
    /\ ~msg_done
    /\ msg_result' = generate_deprecation_message(msg_name, msg_by, msg_until)
    /\ msg_done' = TRUE
    /\ UNCHANGED <<msg_name, msg_by, msg_until>>

----------------------------------------------------------------------------
(* deprecation.py: deprecated *)

\* Module names of callers, as their characters; the empty name stands for
\* a caller without a module.
Hopsworks == <<"h", "o", "p", "s", "w", "o", "r", "k", "s">>
Hsfs == <<"h", "s", "f", "s">>
Hsml == <<"h", "s", "m", "l">>

CallerNames ==
    { Hopsworks,
      Hopsworks \o <<".", "x">>,
      Hsfs,
      Hsfs \o <<"x">>,
      Hsml \o <<".", "m">>,
      <<"h", "s", "f">>,
      <<"m", "y">> \o Hsfs,
      <<"_", "_", "m", "a", "i", "n", "_", "_">>,
      <<>> }

StartsWith(chars, prefix) ==
    Len(prefix) <= Len(chars) /\ SubSeq(chars, 1, Len(prefix)) = prefix

\* A variant that takes only the packages themselves for internal.
IsInternalExact(cn) == cn \in {Hopsworks, Hsfs, Hsml}

\* cn.startswith(("hopsworks", "hsfs", "hsml"))
IsInternal(cn) == \E prefix \in {Hopsworks, Hsfs, Hsml} : StartsWith(cn, prefix)

\* What the wrapped function returns for the arguments it is given.
Returned(qualname, args, kwargs) ==
    [from |-> qualname, args |-> args, kwargs |-> kwargs]

\* deprecated_f(*args, **kwargs) of the wrapper w, called from module cn: the
\* warnings emitted, the invocations of the wrapped function and the value
\* returned.
deprecated_f(w, cn, args, kwargs) ==
    [warnings |-> IF ~IsInternal(cn)
                  THEN << [message |-> w.message,
                           category |-> "HopsworksDeprecationWarning",
                           stacklevel |-> 2] >>
                  ELSE <<>>,
     invoked |-> << [symbol |-> w.wraps, args |-> args, kwargs |-> kwargs] >>,
     returned |-> Returned(w.wraps, args, kwargs)]

\* The symbols decorated: a function, a class with two plain methods, a
\* class without one, and an object that is neither.
DepSymbols ==
    { [kind |-> "function", qualname |-> "old_f", methods |-> <<>>],
      [kind |-> "class", qualname |-> "K", methods |-> <<"m1", "m2">>],
      [kind |-> "class", qualname |-> "E", methods |-> <<>>],
      [kind |-> "other", qualname |-> "v", methods |-> <<>>] }

NotDecorated == [status |-> "none", error |-> "none", wrappers |-> <<>>]

\* deprecate(m) for the plain functions of a class, in the order of
\* inspect.getmembers; the first error ends the decoration.
RECURSIVE DeprecateMethods(_, _, _, _, _)
DeprecateMethods(name, qualname, methods, by, until) ==
    IF methods = <<>> THEN [error |-> "none", wrappers |-> <<>>]
    ELSE
      LET message == generate_deprecation_message(name \o <<".", Head(methods)>>, by, until)
          rest == DeprecateMethods(name, qualname, Tail(methods), by, until)
      IN  IF message.error # "none" THEN [error |-> message.error, wrappers |-> <<>>]
          ELSE IF rest.error # "none" THEN rest
          ELSE [error |-> "none",
                wrappers |-> <<[wraps |-> <<qualname, Head(methods)>>,
                                message |-> message.text]>> \o rest.wrappers]

\* deprecated(*by, available_until, public_name)(symbol)
deprecate(symbol, by, until, public_name, registered) ==
    LET name == IF Truthy(public_name) THEN <<public_name.value>>
                ELSE IF Truthy(registered) THEN <<registered.value>>
                ELSE <<symbol.qualname>>
    IN  IF symbol.kind = "class"
        THEN LET r == DeprecateMethods(name, symbol.qualname, symbol.methods, by, until)
             IN  IF r.error # "none"
                 THEN [status |-> "error", error |-> r.error, wrappers |-> <<>>]
                 ELSE [status |-> "class", error |-> "none", wrappers |-> r.wrappers]
        ELSE IF symbol.kind = "function"
        THEN LET message == generate_deprecation_message(name, by, until)
             IN  IF message.error # "none"
                 THEN [status |-> "error", error |-> message.error, wrappers |-> <<>>]
                 ELSE [status |-> "function", error |-> "none",
                       wrappers |-> <<[wraps |-> <<symbol.qualname>>,
                                       message |-> message.text]>>]
        ELSE [status |-> "error", error |-> "not a class or function", wrappers |-> <<>>]

NoCall ==
    [wrapper |-> 0, caller |-> <<>>, args |-> <<>>, kwargs |-> <<>>,
     warnings |-> <<>>, invoked |-> <<>>,
     returned |-> Returned(<<>>, <<>>, <<>>)]

DepInit ==
    /\ dep_by \in {<<>>, <<"new_f">>, <<"new_f", "other_f">>}
    /\ dep_until \in {None, Some("4.0"), Some("4")}
    /\ dep_public_name \in {None, Some("pub.old")}
    /\ dep_symbol \in DepSymbols
    /\ nameOf \in {None, Some(""), Some("lib.f")}
    /\ decorated = NotDecorated
    /\ calls = 0
    /\ external_calls = 0
    /\ warnings_total = 0
    /\ invocations_total = 0
    /\ last_call = NoCall

\* The decorator is applied when the module of the symbol is imported.
Decorate ==
    /\ decorated.status = "none"
    /\ decorated' = deprecate(dep_symbol, dep_by, dep_until, dep_public_name, nameOf)
    /\ UNCHANGED <<dep_by, dep_until, dep_public_name, dep_symbol, nameOf,
                   calls, external_calls, warnings_total, invocations_total, last_call>>

\* The modules that belong to the internal packages, listed one by one.
InternalCallers ==
    {Hopsworks, Hopsworks \o <<".", "x">>, Hsfs, Hsfs \o <<"x">>, Hsml \o <<".", "m">>}

\* A call of a wrapper (the decorated function, or a method of the
\* decorated class).
CallDeprecated ==
    /\ calls < MaxCalls
    /\ \E i \in 1..Len(decorated.wrappers) :
       \E cn \in CallerNames :
       \E args \in {<<>>, <<1, 2>>} :
       \E kwargs \in {<<>>, << <<"k", 3>> >>} :
         LET r == deprecated_f(decorated.wrappers[i], cn, args, kwargs)
         IN  /\ last_call' = [wrapper |-> i, caller |-> cn, args |-> args,
                              kwargs |-> kwargs, warnings |-> r.warnings,
                              invoked |-> r.invoked, returned |-> r.returned]
             /\ warnings_total' = warnings_total + Len(r.warnings)
             /\ invocations_total' = invocations_total + Len(r.invoked)
             /\ external_calls' = external_calls + (IF cn \in InternalCallers THEN 0 ELSE 1)
    /\ calls' = calls + 1
    /\ UNCHANGED <<dep_by, dep_until, dep_public_name, dep_symbol, nameOf, decorated>>

----------------------------------------------------------------------------
(* mkdocs.py: _NavNode and the loop of on_files *)

MOD_SYMBOL == "<code class=\"doc-symbol doc-symbol-nav doc-symbol-module\"></code>"

api_root_uri == "reference"

\* _NavNode.doc_path of a node made without one.
NoDocPath == <<>>

\* _module_doc_path(module_path): the path split at "/", the suffix of the
\* file name last: reference/a/b.md, and reference/a/b/index.md for a root
\* module.
module_doc_path(module_path, roots) ==
    IF module_path \in roots
    THEN <<api_root_uri>> \o module_path \o <<"index", ".md">>
    ELSE <<api_root_uri>> \o module_path \o <<".md">>

\* The descendants of a node in the tree.
Below(tree, node) ==
    {q \in DOMAIN tree : Len(q) > Len(node) /\ SubSeq(q, 1, Len(node)) = node}

\* node.children, by name.
Children(tree, node) ==
    {q \in DOMAIN tree : Len(q) = Len(node) + 1 /\ Front(q) = node}

\* _NavNode.add_module(module_path, docs_path): the nodes on the way are
\* made when missing; the last one is set to a new node with the
\* documentation path and no children, whatever was there.
add_module(tree, parts, docs_path) ==
    LET way == {SubSeq(parts, 1, k) : k \in 1..(Len(parts) - 1)}
        kept == (DOMAIN tree \ Below(tree, parts)) \ {parts}
    IN  [q \in kept \cup way \cup {parts} |->
           IF q = parts THEN docs_path
           ELSE IF q \in DOMAIN tree THEN tree[q]
           ELSE NoDocPath]

\* sorted(...) of a set of names or of module paths.
RECURSIVE SortedSeq(_)
SortedSeq(S) ==
    IF S = {} THEN <<>>
    ELSE LET least == CHOOSE x \in S : \A y \in S \ {x} : SeqLess(x, y)
         IN  <<least>> \o SortedSeq(S \ {least})

NavPath(doc_path) == [kind |-> "path", key |-> <<>>, doc_path |-> doc_path, list |-> <<>>]

NavPage(name, doc_path) ==
    [kind |-> "page", key |-> <<MOD_SYMBOL, " ", name>>, doc_path |-> doc_path, list |-> <<>>]

NavSection(name, list) ==
    [kind |-> "section", key |-> <<MOD_SYMBOL, " ", name>>, doc_path |-> NoDocPath, list |-> list]

\* A variant of as_list that leaves out the page of a node with children.
RECURSIVE ListWithoutPages(_, _)
ListWithoutPages(tree, todo) ==
    IF todo = <<>> THEN <<>>
    ELSE
      LET child == Head(todo)
          name == Last(child)
          below == Children(tree, child)
      IN  (IF tree[child] # NoDocPath /\ below = {}
           THEN <<NavPage(name, tree[child])>>
           ELSE IF below # {}
           THEN <<NavSection(name, ListWithoutPages(tree, SortedSeq(below)))>>
           ELSE <<>>)
          \o ListWithoutPages(tree, Tail(todo))

as_list_without_pages(tree, node) == ListWithoutPages(tree, SortedSeq(Children(tree, node)))

\* The loop of as_list over the sorted children still to do.
RECURSIVE ListOf(_, _)
ListOf(tree, todo) ==
    IF todo = <<>> THEN <<>>
    ELSE
      LET child == Head(todo)
          name == Last(child)
          below == Children(tree, child)
          child_list == ListOf(tree, SortedSeq(below))
      IN  (IF tree[child] # NoDocPath /\ below = {}
           THEN <<NavPage(name, tree[child])>>
           ELSE IF below # {}
           THEN <<NavSection(name,
                    IF tree[child] # NoDocPath
                    THEN <<NavPath(tree[child])>> \o child_list
                    ELSE child_list)>>
           ELSE <<>>)
          \o ListOf(tree, Tail(todo))

\* _NavNode.as_list() of the node.
as_list(tree, node) == ListOf(tree, SortedSeq(Children(tree, node)))

ModuleParts == {"a", "b", "index"}

DocModulePaths == UNION {[1..k -> ModuleParts] : k \in 1..MaxDepth}

RootChoices == SUBSET {<<"a">>, <<"b">>}

\* on_config: the tree is its root, without a documentation path.
EmptyTree == [q \in {<<>>} |-> NoDocPath]

TreeInit ==
    /\ nav_tree = EmptyTree
    /\ root_modules \in RootChoices
    /\ doc_modules \in {S \in SUBSET DocModulePaths : Cardinality(S) <= MaxModules}
    /\ added = <<>>
    /\ nav_prev = EmptyTree
    /\ tree_list = <<>>
    /\ listed = FALSE

\* One turn of the loop of on_files: the next module of
\* sorted(self.objects_by_module) goes into the tree.
AddModule ==
    /\ Len(added) < Cardinality(doc_modules)
    /\ LET module_path == SortedSeq(doc_modules)[Len(added) + 1]
       IN  /\ nav_tree' = add_module(nav_tree, module_path,
                                     module_doc_path(module_path, root_modules))
           /\ added' = Append(added, module_path)
    /\ nav_prev' = nav_tree
    /\ UNCHANGED <<root_modules, doc_modules, tree_list, listed>>

\* The end of on_files: self.nav.as_list().
NavAsList ==
    /\ Len(added) = Cardinality(doc_modules)
    /\ ~listed
    /\ tree_list' = as_list(nav_tree, <<>>)
    /\ listed' = TRUE
    /\ UNCHANGED <<nav_tree, root_modules, doc_modules, added, nav_prev>>

----------------------------------------------------------------------------
(* aliases.py: public *)

\* Python objects: a str with its value, or an object of another type.
Str(s) == [kind |-> "str", v |-> s]

isinstance_str(x) == x.kind = "str"

\* The symbols that get decorated: functions and classes.
PubSymbols == {[kind |-> "function", v |-> "m.f"], [kind |-> "class", v |-> "m.K"]}

\* What a caller may pass as a path: import paths, the empty string, and
\* objects that are no strings (a number, None, a function or a class
\* written without its quotes).
PathArguments ==
    {Str("pkg.f"), Str("pkg.g"), Str("")}
      \cup {[kind |-> "int", v |-> "42"], [kind |-> "NoneType", v |-> "None"]}
      \cup PubSymbols

PathLists == UNION {[1..k -> PathArguments] : k \in 0..MaxPaths}

Callable(x) == x.kind \in {"function", "class"}

NoObject == [kind |-> "nothing", v |-> ""]

\* d[key] = value on a dict kept as a set of (key, value) pairs.
SetItem(d, key, value) == {p \in d : p[1] # key} \cup {<<key, value>>}

\* A variant of publicate without the type test of the primary path.
publicate_unchecked(paths, symbol, names) ==
    LET name == IF paths # <<>> THEN paths[1] ELSE Str("")
    IN  [error |-> "none", returned |-> symbol,
         names |-> SetItem(names, symbol, name.v)]

\* publicate(symbol) of public(*paths): the error raised or the object
\* returned, and PublicNames.nameOf afterwards.
publicate(paths, symbol, names) ==
    LET name == IF paths # <<>> THEN paths[1] ELSE Str("")
    IN  IF ~isinstance_str(name)
        THEN [error |-> "TypeError: primary public path", returned |-> NoObject,
              names |-> names]
        ELSE [error |-> "none", returned |-> symbol,
              names |-> SetItem(names, symbol, name.v)]

\* public(*paths, order): the single argument itself when it is no
\* string, else the decorator publicate.  order is not used by the body.
public(paths) ==
    IF Len(paths) = 1 /\ ~isinstance_str(paths[1])
    THEN [kind |-> "argument", value |-> paths[1]]
    ELSE [kind |-> "publicate", value |-> NoObject]

NoUse ==
    [form |-> "none", paths |-> <<>>, symbol |-> NoObject, got |-> "none",
     error |-> "none", returned |-> NoObject, names_before |-> {}]

PubInit ==
    /\ public_names = {}
    /\ applications = 0
    /\ last_public = NoUse

\* @public above a symbol: public(symbol).
PublicBare ==
    /\ applications < MaxApplications
    /\ \E symbol \in PubSymbols :
         LET r == public(<<symbol>>)
         IN  /\ last_public' = [form |-> "bare", paths |-> <<symbol>>, symbol |-> symbol,
                                got |-> r.kind, error |-> "none",
                                returned |-> r.value, names_before |-> public_names]
             /\ public_names' = public_names
    /\ applications' = applications + 1

\* @public(*paths) above a symbol: public(*paths)(symbol).  When public
\* gives back its argument, Python calls that object with the symbol: an
\* object that is not callable raises TypeError, a function or class does
\* whatever it does (it returns the symbol, returns something else, or
\* raises).
PublicParameterized ==
    /\ applications < MaxApplications
    /\ \E paths \in PathLists, symbol \in PubSymbols :
         LET r == public(paths)
             use == [form |-> "parameterized", paths |-> paths, symbol |-> symbol,
                     got |-> r.kind, error |-> "none", returned |-> NoObject,
                     names_before |-> public_names]
         IN  IF r.kind = "publicate"
             THEN LET p == publicate(paths, symbol, public_names)
                  IN  /\ last_public' = [use EXCEPT !.error = p.error,
                                                    !.returned = p.returned]
                      /\ public_names' = p.names
             ELSE /\ public_names' = public_names
                  /\ IF ~Callable(r.value)
                     THEN last_public' = [use EXCEPT !.error = "TypeError: not callable"]
                     ELSE \/ last_public' = [use EXCEPT !.returned = symbol]
                          \/ last_public' = [use EXCEPT !.returned =
                                                [kind |-> "object", v |-> "result"]]
                          \/ last_public' = [use EXCEPT !.error = "raised by the callee"]
    /\ applications' = applications + 1

----------------------------------------------------------------------------
(* Specifications: one per part of the program; the other parts stay idle *)

AliasIdle ==
    /\ dirs = {<<>>}
    /\ files = EmptyMap
    /\ aliases = <<>>
    /\ destination_root = <<>>
    /\ runs = 0
    /\ last_result = [NoError EXCEPT !.kind = "none"]
    /\ prev_dirs = {<<>>}
    /\ prev_files = EmptyMap
    /\ created = {}
    /\ written = {}
    /\ synthesized = {}

NavIdle ==
    /\ cfg_nav = <<>>
    /\ nav_section_title = "API Reference"
    /\ nav_before = <<>>
    /\ nav_list = <<>>
    /\ merges = 0

DocsIdle ==
    /\ config_modules = <<>>
    /\ extra = EmptyMap
    /\ objects_by_module = EmptyMap
    /\ index_built = FALSE

MsgIdle ==
    /\ msg_name = <<>>
    /\ msg_by = <<>>
    /\ msg_until = None
    /\ msg_result = MessageError("not called")
    /\ msg_done = FALSE

DepIdle ==
    /\ dep_by = <<>>
    /\ dep_until = None
    /\ dep_public_name = None
    /\ dep_symbol = [kind |-> "other", qualname |-> "v", methods |-> <<>>]
    /\ nameOf = None
    /\ decorated = NotDecorated
    /\ calls = 0
    /\ external_calls = 0
    /\ warnings_total = 0
    /\ invocations_total = 0
    /\ last_call = NoCall

PubIdle == PubInit

TreeIdle ==
    /\ nav_tree = EmptyTree
    /\ root_modules = {}
    /\ doc_modules = {}
    /\ added = <<>>
    /\ nav_prev = EmptyTree
    /\ tree_list = <<>>
    /\ listed = FALSE

vars == <<alias_vars, nav_vars, docs_vars, msg_vars, dep_vars, pub_vars, tree_vars>>

AliasNext == GenerateAliases /\ UNCHANGED <<nav_vars, docs_vars, msg_vars, dep_vars, pub_vars, tree_vars>>

AliasSpecInit == AliasInit /\ NavIdle /\ DocsIdle /\ MsgIdle /\ DepIdle /\ PubIdle /\ TreeIdle

AliasSpec == AliasSpecInit /\ [][AliasNext]_vars

NavNext == MergeNav /\ UNCHANGED <<alias_vars, docs_vars, msg_vars, dep_vars, pub_vars, tree_vars>>

NavSpecInit == NavInit /\ AliasIdle /\ DocsIdle /\ MsgIdle /\ DepIdle /\ PubIdle /\ TreeIdle

NavSpec == NavSpecInit /\ [][NavNext]_vars

DocsNext == CollectPublicObjects /\ UNCHANGED <<alias_vars, nav_vars, msg_vars, dep_vars, pub_vars, tree_vars>>

DocsSpecInit == DocsInit /\ AliasIdle /\ NavIdle /\ MsgIdle /\ DepIdle /\ PubIdle /\ TreeIdle

DocsSpec == DocsSpecInit /\ [][DocsNext]_vars

MsgNext == GenerateMessage /\ UNCHANGED <<alias_vars, nav_vars, docs_vars, dep_vars, pub_vars, tree_vars>>

MsgSpecInit == MsgInit /\ AliasIdle /\ NavIdle /\ DocsIdle /\ DepIdle /\ PubIdle /\ TreeIdle

MsgSpec == MsgSpecInit /\ [][MsgNext]_vars

DepNext ==
    \/ Decorate /\ UNCHANGED <<alias_vars, nav_vars, docs_vars, msg_vars, pub_vars, tree_vars>>
    \/ CallDeprecated /\ UNCHANGED <<alias_vars, nav_vars, docs_vars, msg_vars, pub_vars, tree_vars>>

DepSpecInit == DepInit /\ AliasIdle /\ NavIdle /\ DocsIdle /\ MsgIdle /\ PubIdle /\ TreeIdle

DepSpec == DepSpecInit /\ [][DepNext]_vars

PubNext ==
    \/ PublicBare /\ UNCHANGED <<alias_vars, nav_vars, docs_vars, msg_vars, dep_vars, tree_vars>>
    \/ PublicParameterized /\ UNCHANGED <<alias_vars, nav_vars, docs_vars, msg_vars, dep_vars, tree_vars>>

PubSpecInit == PubInit /\ AliasIdle /\ NavIdle /\ DocsIdle /\ MsgIdle /\ DepIdle /\ TreeIdle

PubSpec == PubSpecInit /\ [][PubNext]_vars

TreeNext ==
    \/ AddModule /\ UNCHANGED <<alias_vars, nav_vars, docs_vars, msg_vars, dep_vars, pub_vars>>
    \/ NavAsList /\ UNCHANGED <<alias_vars, nav_vars, docs_vars, msg_vars, dep_vars, pub_vars>>

TreeSpecInit ==
    TreeInit /\ AliasIdle /\ NavIdle /\ DocsIdle /\ MsgIdle /\ DepIdle /\ PubIdle

TreeSpec == TreeSpecInit /\ [][TreeNext]_vars

----------------------------------------------------------------------------
(* Properties of alias synthesis *)

Ran == runs > 0
Failed == last_result.kind \in {"package_exists", "module_exists", "duplicate"}
CollisionKinds == {"package_exists", "module_exists"}

Targets == {aliases[i].target_module : i \in 1..Len(aliases)}

\* Two declarations of one target with the same alias name and different
\* origins.
DuplicateConflict ==
    \E i, j \in 1..Len(aliases) :
        /\ aliases[i].target_module = aliases[j].target_module
        /\ aliases[i].alias_name = aliases[j].alias_name
        /\ <<aliases[i].from_module, aliases[i].object_name>>
             # <<aliases[j].from_module, aliases[j].object_name>>

\* Some alias name is declared twice in one target.
RepeatedAliasName ==
    \E i, j \in 1..Len(aliases) :
        /\ i # j
        /\ aliases[i].target_module = aliases[j].target_module
        /\ aliases[i].alias_name = aliases[j].alias_name

\* The run left the file system as it found it, but for what the scan of the
\* source tree unlinked.
NothingWritten ==
    /\ created = {}
    /\ written = {}
    /\ dirs = prev_dirs
    /\ \A p \in DOMAIN files : p \in DOMAIN prev_files /\ files[p] = prev_files[p]

\* A target that neither collides nor repeats an alias name.
ValidTarget(t) ==
    /\ t \in Targets
    /\ \A i, j \in 1..Len(aliases) :
         (i # j /\ aliases[i].target_module = t /\ aliases[j].target_module = t)
            => aliases[i].alias_name # aliases[j].alias_name

\* C1: when two declarations share target module and alias name but differ
\* in origin, the run fails with the error of collect_managed, and at that
\* moment it has created no directory and written no file, also not for the
\* other, valid targets.  A duplicate error names an alias declared twice.
C1_DuplicateFailsBeforeWriting ==
    Ran =>
      /\ DuplicateConflict => (Failed /\ NothingWritten)
      /\ last_result.kind = "duplicate" =>
           /\ NothingWritten
           /\ \E i, j \in 1..Len(aliases) :
                /\ i # j
                /\ aliases[i].target_module = last_result.target_module
                /\ aliases[j].target_module = last_result.target_module
                /\ aliases[i].alias_name = last_result.alias_name
                /\ aliases[j].alias_name = last_result.alias_name
                /\ last_result.original_ref
                     = <<aliases[i].from_module, aliases[i].object_name>>
                /\ last_result.declared
                     = <<aliases[j].from_module, aliases[j].object_name>>

\* A run that failed on a duplicate while another target was valid and its
\* directory did not exist yet.
C1_Witness ==
    /\ Ran
    /\ DuplicateConflict
    /\ last_result.kind = "duplicate"
    /\ \E t \in Targets :
         /\ t # last_result.target_module
         /\ ValidTarget(t)
         /\ (destination_root \o t) \notin dirs

\* The source tree as the claim describes it, read off the files before the
\* run: a package is a directory with a hand-written __init__.py, a module a
\* .py file.
PyFileOf(part) == CASE part = "a" -> "a.py" [] part = "b" -> "b.py"

SourcePackageAt(t) ==
    /\ (t \o <<"__init__.py">>) \in DOMAIN prev_files
    /\ prev_files[t \o <<"__init__.py">>][1] # MAGIC_COMMENT

SourceModuleAt(mod) ==
    /\ mod # <<>>
    /\ (Front(mod) \o <<PyFileOf(Last(mod))>>) \in DOMAIN prev_files

Collides(t) ==
    \/ SourcePackageAt(t)
    \/ \E k \in 1..Len(t) : SourceModuleAt(SubSeq(t, 1, k))

DistinctDeclarations ==
    \A i, j \in 1..Len(aliases) : i # j => aliases[i] # aliases[j]

C3_SecondRunIdentical ==
    (runs >= 2 /\ last_result.kind = "ok") => (files = prev_files /\ dirs = prev_dirs)

\* C4: a file that exists at a destination path and does not start with the
\* magic comment keeps its content.
C4_UnmarkedFileKept ==
    Ran =>
      \A p \in DOMAIN prev_files :
          (Last(p) = "__init__.py" /\ ~StartsWithMagic(prev_files[p]))
             => (p \in DOMAIN files /\ files[p] = prev_files[p])

\* C5: after a successful run every synthesized directory from the
\* destination root down to a generated alias module holds an __init__.py
\* that starts with the magic comment.
C5_MarkerInEverySynthesizedDir ==
    (Ran /\ last_result.kind = "ok") =>
      \A d \in synthesized :
          (\E t \in Targets : IsPrefix(destination_root, d)
                              /\ IsPrefix(d, destination_root \o t))
             => /\ (d \o <<"__init__.py">>) \in DOMAIN files
                /\ StartsWithMagic(files[d \o <<"__init__.py">>])

GitignorePath == destination_root \o <<".gitignore">>

PreviousIgnore ==
    IF GitignorePath \in DOMAIN prev_files THEN prev_files[GitignorePath]
    ELSE <<GITIGNORE_HEADER>>

\* The lines the file has after its previous content.
AddedLines ==
    SubSeq(files[GitignorePath], Len(PreviousIgnore) + 1, Len(files[GitignorePath]))

IgnoreLine(d) ==
    IF d = destination_root THEN <<"/", ".">>
    ELSE <<"/">> \o SubSeq(d, Len(destination_root) + 1, Len(d))

CreatedInRoot == {d \in created : IsPrefix(destination_root, d)}

CreatedTopLevel == {d \in CreatedInRoot : Len(d) = Len(destination_root) + 1}

GitignoreUntouched ==
    IF GitignorePath \in DOMAIN prev_files
    THEN GitignorePath \in DOMAIN files
         /\ files[GitignorePath] = prev_files[GitignorePath]
    ELSE GitignorePath \notin DOMAIN files

\* C6 (as amended): after a run that created a directory at or below the
\* destination root, .gitignore is its previous content (the header line if
\* it did not exist) followed by one line for each such directory, nested
\* ones included, in ascending order, each "/" and the path relative to the
\* root; directories that existed before add no line; a run that creates no
\* such directory, or fails, leaves the file as it was.  Previous content is
\* never removed.
C6_GitignoreAppended ==
    Ran =>
      IF last_result.kind = "ok" /\ CreatedInRoot # {}
      THEN /\ GitignorePath \in DOMAIN files
           /\ IsPrefix(PreviousIgnore, files[GitignorePath])
           /\ {AddedLines[i] : i \in 1..Len(AddedLines)}
                = {IgnoreLine(d) : d \in CreatedInRoot}
           /\ Len(AddedLines) = Cardinality(CreatedInRoot)
           /\ \A i \in 1..(Len(AddedLines) - 1) :
                SeqLess(AddedLines[i], AddedLines[i + 1])
           /\ CreatedInRoot \cap prev_dirs = {}
      ELSE GitignoreUntouched

\* C6 as stated: only the top-level directories created add a line.
C6_Original ==
    (Ran /\ last_result.kind = "ok" /\ GitignorePath \in DOMAIN files) =>
      /\ IsPrefix(PreviousIgnore, files[GitignorePath])
      /\ {AddedLines[i] : i \in 1..Len(AddedLines)}
           = {IgnoreLine(d) : d \in CreatedTopLevel}

\* A run that appended to an existing .gitignore after creating a nested
\* directory below a directory that existed.
C6_Witness ==
    /\ Ran
    /\ last_result.kind = "ok"
    /\ GitignorePath \in DOMAIN prev_files
    /\ \E d \in CreatedInRoot : Len(d) = Len(destination_root) + 2
    /\ \E t \in Targets : (destination_root \o t) \in prev_dirs
    /\ Len(AddedLines) >= 1

----------------------------------------------------------------------------
(* Properties of the navigation merge and of the publication index *)

NavEntry == MapItem(nav_section_title, nav_list)

\* The entry is the bare title, or a mapping whose key is the title.
NavMatches(item) ==
    \/ item = StrItem(nav_section_title)
    \/ \E v \in {item.value} : item = MapItem(nav_section_title, v)

NavMatching == {i \in 1..Len(nav_before) : NavMatches(nav_before[i])}

\* C7: a merge replaces the first entry that is the section title or a
\* mapping keyed by it, at the same index, the length and every other entry
\* staying as they were; without such an entry the section is appended last
\* and every entry stays.  One entry is added or replaced per call.
C7_MergeReplacesOrAppends ==
    merges > 0 =>
      IF NavMatching # {}
      THEN LET k == CHOOSE i \in NavMatching : \A j \in NavMatching : i <= j
           IN  /\ Len(cfg_nav) = Len(nav_before)
               /\ cfg_nav[k] = NavEntry
               /\ \A i \in 1..Len(nav_before) : i # k => cfg_nav[i] = nav_before[i]
      ELSE /\ Len(cfg_nav) = Len(nav_before) + 1
           /\ cfg_nav[Len(cfg_nav)] = NavEntry
           /\ \A i \in 1..Len(nav_before) : cfg_nav[i] = nav_before[i]

\* A merge into a navigation with two placeholders, the first a bare string
\* after another entry: it was replaced and the second one kept.
C7_Witness ==
    /\ merges > 0
    /\ \E i, j \in NavMatching :
         /\ 1 < i
         /\ i < j
         /\ nav_before[i].is_str
         /\ ~nav_before[j].is_str
         /\ cfg_nav[i] = NavEntry
         /\ cfg_nav[j] = nav_before[j]
         /\ cfg_nav[j] # NavEntry

\* The public functions and classes met under a configured root.
PublicSymbols == {sym \in Symbols : extra[sym].present /\ extra[sym].is_public}

UnderRoot(sym) ==
    \E i \in 1..Len(config_modules) : IsPrefix(config_modules[i], sym.module)

\* Where the path of a symbol is listed in the index: (module, position).
Occurrences(sym) ==
    UNION {{<<mod, i>> : i \in {j \in 1..Len(objects_by_module[mod]) :
                                  objects_by_module[mod][j][1] = sym.module \o <<sym.name>>}} :
           mod \in DOMAIN objects_by_module}

PrimaryPathModule(sym) ==
    IF extra[sym].aliases # <<>> /\ extra[sym].aliases[1] # <<>>
    THEN extra[sym].aliases[1]
    ELSE sym.module

\* No root is configured twice.
DistinctRoots ==
    \A i, j \in 1..Len(config_modules) : i # j => config_modules[i] # config_modules[j]

\* C8: the index lists the physical path of every public function or class
\* exactly once in total, under the module of its primary path, or under its
\* declaring module when the primary path is empty, whatever the (distinct)
\* roots, one of which may be a submodule of another.
C8_ListedExactlyOnce ==
    (index_built /\ DistinctRoots) =>
      \A sym \in PublicSymbols :
          UnderRoot(sym) =>
            /\ Cardinality(Occurrences(sym)) = 1
            /\ \A o \in Occurrences(sym) : o[1] = PrimaryPathModule(sym)

----------------------------------------------------------------------------
(* Properties of the deprecation wrapper and of the message *)

\* C9: every call of a deprecated function from a module outside the
\* internal packages emits exactly one HopsworksDeprecationWarning, however
\* many calls came before, a call from inside emits none, and in every case
\* the wrapped function is invoked once with the same positional and keyword
\* arguments and its return value is returned.
C9_WarnsOnEveryExternalCall ==
    calls > 0 =>
      /\ last_call.caller \notin InternalCallers =>
           last_call.warnings
             = << [message |-> decorated.wrappers[last_call.wrapper].message,
                   category |-> "HopsworksDeprecationWarning",
                   stacklevel |-> 2] >>
      /\ last_call.caller \in InternalCallers => last_call.warnings = <<>>
      /\ Len(last_call.invoked) = 1
      /\ last_call.invoked[1].symbol = decorated.wrappers[last_call.wrapper].wraps
      /\ last_call.invoked[1].args = last_call.args
      /\ last_call.invoked[1].kwargs = last_call.kwargs
      /\ last_call.returned
           = Returned(decorated.wrappers[last_call.wrapper].wraps,
                      last_call.args, last_call.kwargs)
      /\ warnings_total = external_calls
      /\ invocations_total = calls

\* The third call in a row from outside, with arguments, warned again, after
\* a first call whose module name only contains an internal prefix.
C9_Witness ==
    /\ calls = 3
    /\ external_calls = 3
    /\ warnings_total = 3
    /\ decorated.status = "function"
    /\ last_call.caller = <<"m", "y">> \o Hsfs
    /\ last_call.args = <<1, 2>>
    /\ last_call.kwargs # <<>>
    /\ Len(last_call.warnings) = 1

\* The version strings that are major.minor (one of them with the final
\* newline that $ lets pass).
MajorMinorVersions == {"4.0", "10.2", "4.0\n"}

\* The recommendations as the message lists them: every item at an odd
\* place, between two items ", ", before the last one " or " for two items
\* and ", or " for three or more.
ExpectedRecs(by) ==
    [i \in 1..(2 * Len(by) - 1) |->
        IF i % 2 = 1 THEN by[(i + 1) \div 2]
        ELSE IF i < 2 * Len(by) - 2 THEN ", "
        ELSE IF Len(by) = 2 THEN " or "
        ELSE ", or "]

ExpectedVersion(until) ==
    IF until.given /\ until.value # "" THEN <<"version ", until.value>>
    ELSE <<"a future release">>

\* C10: for a non-empty list of recommendations (and a version that is
\* major.minor, when one is given) the message is "<name> is deprecated.
\* The function will be removed in <v> of hopsworks. Consider using <recs>
\* instead.", <v> being "version <available_until>" or "a future release"
\* and <recs> the list joined as X, X or Y, or X, Y, or Z.
C10_MessageText ==
    (msg_done /\ msg_by # <<>>
       /\ (Truthy(msg_until) => msg_until.value \in MajorMinorVersions)) =>
      /\ msg_result.error = "none"
      /\ msg_result.text
           = msg_name \o <<" is deprecated.", " The function will be removed in ">>
               \o ExpectedVersion(msg_until)
               \o <<" of hopsworks.", " Consider using ">>
               \o ExpectedRecs(msg_by) \o <<" instead.">>

\* A message for three recommendations and a version.
C10_Witness ==
    /\ msg_done
    /\ Len(msg_by) = 3
    /\ msg_by[1] # msg_by[2]
    /\ msg_until = Some("10.2")
    /\ msg_result.error = "none"
    /\ Len(msg_result.text) = Len(msg_name) + 12

----------------------------------------------------------------------------
(* C11: the errors of generate_deprecation_message *)

Raised == msg_result.error \in {"available_until format", "no recommendation"}

\* available_until was passed (it is not None) and re.match finds no
\* major.minor in it.
GivenAndNotMajorMinor ==
    msg_until.given /\ ~MatchesMajorMinor(VersionChars(msg_until.value))

OmittedOrMajorMinor ==
    ~msg_until.given \/ MatchesMajorMinor(VersionChars(msg_until.value))

MentionsVersion ==
    \E i \in 1..(Len(msg_result.text) - 1) :
        /\ msg_result.text[i] = "version "
        /\ msg_result.text[i + 1] = msg_until.value

\* C11: generate_deprecation_message raises HopsworksApigenError whenever
\* the list of recommendations is empty and whenever available_until is
\* given and is not major.minor; with a non-empty list and available_until
\* omitted or major.minor it returns a text, which names the version when
\* one is given.
C11_MessageErrors ==
    msg_done =>
      /\ (msg_by = <<>> => Raised)
      /\ (GivenAndNotMajorMinor => Raised)
      /\ (msg_by # <<>> /\ OmittedOrMajorMinor =>
             /\ msg_result.error = "none"
             /\ (msg_until.given => MentionsVersion))

----------------------------------------------------------------------------
(* C12: public *)

Parameterized == last_public.form = "parameterized"

PrimaryNotString ==
    last_public.paths # <<>> /\ ~isinstance_str(last_public.paths[1])

AllPathsStrings ==
    \A i \in 1..Len(last_public.paths) : isinstance_str(last_public.paths[i])

EntriesOf(symbol) == {p \in public_names : p[1] = symbol}

PrimaryPath ==
    IF last_public.paths = <<>> THEN "" ELSE last_public.paths[1].v

\* The symbol itself came back and nameOf holds one entry for it, its
\* primary path; the entries of the other symbols are as before.
ReturnedAndRecorded ==
    /\ last_public.error = "none"
    /\ last_public.returned = last_public.symbol
    /\ EntriesOf(last_public.symbol) = {<<last_public.symbol, PrimaryPath>>}
    /\ \A p \in last_public.names_before :
          p[1] # last_public.symbol => p \in public_names

\* C12 as stated: with one or more path arguments of which the first is
\* no string the use of public fails (any error raised is taken as the
\* failure); with path arguments that are all strings the symbol itself
\* comes back and nameOf holds exactly one entry for it.
C12_Original ==
    Parameterized =>
      /\ (PrimaryNotString => last_public.error # "none")
      /\ (AllPathsStrings => ReturnedAndRecorded)

\* C12: with two or more path arguments of which the first is no string,
\* applying the decorator raises the TypeError of publicate and records
\* nothing; a single argument that is no string is handed back by public
\* itself, which raises nothing and records nothing; with no path or a
\* first path that is a string the symbol itself comes back and nameOf
\* holds exactly one entry for it, the primary path.
C12_PublicTypeError ==
    last_public.form # "none" =>
      /\ (Len(last_public.paths) >= 2 /\ PrimaryNotString =>
             /\ last_public.error = "TypeError: primary public path"
             /\ public_names = last_public.names_before)
      /\ (Len(last_public.paths) = 1 /\ PrimaryNotString =>
             /\ last_public.got = "argument"
             /\ last_public.error # "TypeError: primary public path"
             /\ public_names = last_public.names_before)
      /\ (Parameterized /\ ~PrimaryNotString => ReturnedAndRecorded)
      /\ (last_public.form = "bare" =>
             last_public.error = "none" /\ last_public.returned = last_public.symbol)

\* The decorator was applied with two paths of which the first is no
\* string, after an earlier use had recorded a name.
C12_Witness ==
    /\ Parameterized
    /\ Len(last_public.paths) = 2
    /\ PrimaryNotString
    /\ last_public.error = "TypeError: primary public path"
    /\ last_public.names_before # {}

----------------------------------------------------------------------------
(* C13: deprecated without recommendations *)

SupportedSymbol == dep_symbol.kind \in {"function", "class"}

\* C13: deprecated applied with no recommendation raises at decoration
\* time, for every function and every class, a class without plain
\* function members included.
C13_EmptyRecommendationsFail ==
    (decorated.status # "none" /\ dep_by = <<>> /\ SupportedSymbol) =>
       (decorated.status = "error" /\ decorated.error # "none")

----------------------------------------------------------------------------
(* C14: identical declarations *)

\* A declaration that occurs twice, all four fields the same.
IdenticalPair ==
    \E i, j \in 1..Len(aliases) : i # j /\ aliases[i] = aliases[j]

BindingLine(alias) ==
    <<alias.alias_name, "=", alias.from_module, alias.object_name>>

AliasModule(alias) == destination_root \o alias.target_module \o <<"__init__.py">>

BoundOnce(alias) ==
    /\ AliasModule(alias) \in DOMAIN files
    /\ Cardinality({k \in 1..Len(files[AliasModule(alias)]) :
                      files[AliasModule(alias)][k] = BindingLine(alias)}) = 1

\* C14: the duplicate error is raised only for two declarations of one
\* target with the same alias name and different origins; declarations
\* that are identical are taken once: the run succeeds and the generated
\* module binds the name exactly once.
C14_IdenticalDeduplicated ==
    Ran =>
      /\ (last_result.kind = "duplicate" => DuplicateConflict)
      /\ (IdenticalPair /\ ~DuplicateConflict /\ ~(\E t \in Targets : Collides(t)) =>
             /\ last_result.kind = "ok"
             /\ \A i \in 1..Len(aliases) : BoundOnce(aliases[i]))

----------------------------------------------------------------------------
(* C15: the navigation tree *)

\* The documentation paths a navigation list holds, in the order of the
\* list, entries of sections included.
RECURSIVE DocPathsIn(_)
DocPathsIn(list) ==
    IF list = <<>> THEN <<>>
    ELSE (IF Head(list).kind = "section" THEN DocPathsIn(Head(list).list)
          ELSE <<Head(list).doc_path>>)
         \o DocPathsIn(Tail(list))

Count(seq, x) == Cardinality({i \in 1..Len(seq) : seq[i] = x})

DocPathOf(module_path) == module_doc_path(module_path, root_modules)

\* The documentation path the list gives at the place of a module: that of
\* its page, or the one a section of its name starts with.
RECURSIVE PathAt(_, _)
PathAt(list, parts) ==
    LET found == {i \in 1..Len(list) :
                    list[i].kind # "path" /\ list[i].key = <<MOD_SYMBOL, " ", Head(parts)>>}
    IN  IF Cardinality(found) # 1 THEN NoDocPath
        ELSE LET entry == list[CHOOSE i \in found : TRUE]
             IN  IF Len(parts) > 1
                 THEN IF entry.kind = "section" THEN PathAt(entry.list, Tail(parts))
                      ELSE NoDocPath
                 ELSE IF entry.kind = "page" THEN entry.doc_path
                 ELSE IF entry.list # <<>> /\ entry.list[1].kind = "path"
                 THEN entry.list[1].doc_path
                 ELSE NoDocPath

\* Every node the tree had before the last add_module is still there with
\* its documentation path (its children are nodes too).
NothingDiscarded ==
    \A q \in DOMAIN nav_prev : q \in DOMAIN nav_tree /\ nav_tree[q] = nav_prev[q]

----------------------------------------------------------------------------
(* C16: where generate_aliases creates and writes *)

StrictlyInside(p) ==
    Len(p) > Len(destination_root) /\ IsPrefix(destination_root, p)

\* A directory above the destination root.
AboveRoot(d) == Len(d) < Len(destination_root) /\ IsPrefix(d, destination_root)

WroteGitignore == last_result.kind = "ok" /\ GitignorePath \in written

\* C16 as stated: directories are created and files written only strictly
\* inside the destination root, the root itself being the one directory
\* created elsewhere, and every line added to .gitignore names a directory
\* strictly below the root.
C16_Original ==
    Ran =>
      /\ \A d \in created : d = destination_root \/ StrictlyInside(d)
      /\ \A f \in written : StrictlyInside(f)
      /\ WroteGitignore =>
           \A i \in 1..Len(AddedLines) :
              \E d \in created : StrictlyInside(d) /\ AddedLines[i] = IgnoreLine(d)

\* C16: a run creates directories only at the destination root, below it,
\* and at the missing directories above it; it writes files only inside
\* the root, and the marker __init__.py of each directory it created above
\* the root; no other file changes content; every line it adds to
\* .gitignore names a directory it created at or below the root ("/." for
\* the root itself).
C16_WritesAtRootOrMissingAncestors ==
    Ran =>
      /\ \A d \in created :
            /\ d \notin prev_dirs
            /\ d = destination_root \/ StrictlyInside(d) \/ AboveRoot(d)
      /\ \A f \in written :
            \/ StrictlyInside(f)
            \/ /\ Last(f) = "__init__.py"
               /\ Front(f) \in created
               /\ AboveRoot(Front(f))
               /\ files[f] = <<MAGIC_COMMENT>>
      /\ \A f \in DOMAIN files :
            f \notin written => f \in DOMAIN prev_files /\ files[f] = prev_files[f]
      /\ dirs = prev_dirs \cup created
      /\ WroteGitignore =>
           \A i \in 1..Len(AddedLines) :
              \E d \in CreatedInRoot : AddedLines[i] = IgnoreLine(d)

\* A run towards build/aliases in a tree without a build directory: build
\* is created and gets its marker.
C16_Witness ==
    /\ Ran
    /\ last_result.kind = "ok"
    /\ destination_root = BuildRoot
    /\ <<"build">> \in created
    /\ <<"build", "__init__.py">> \in written
    /\ \E d \in created : StrictlyInside(d)

====
